---- MODULE Spec2Model ----
(***************************************************************************)
(* Model of the pagination header of the streamlined issue event list      *)
(* (static/app/views/issueDetails/streamline/eventList.tsx).               *)
(*                                                                         *)
(* EventList passes a render prop, renderTableHeader, to EventsTable.      *)
(* EventsTable calls it with the pagination header of the latest page      *)
(* (pageLinks), the page and total counts and the isPending flag; the      *)
(* header it returns shows a range and three link buttons (Previous Page,  *)
(* Next Page, Close) whose targets are built from the router location.     *)
(*                                                                         *)
(* Encoding of JavaScript values:                                          *)
(*   - an optional value is a tuple of length 0 (undefined / null) or 1;   *)
(*   - a query-string value is the tuple of its ':'-separated numeric      *)
(*     fields: "0:1:0" is <<0, 1, 0>>, "14" is <<14>>;                     *)
(*   - an object is a function from the keys it owns, so a key that is     *)
(*     present with the value undefined differs from a key that is absent. *)
(***************************************************************************)
EXTENDS Integers, Sequences, FiniteSets, TLC

\* Largest offset carried by a cursor token.
MaxOffset == 1
\* Largest number of events on a page; the total is 0 or MaxCount.
MaxCount == 1

----------------------------------------------------------------------------
(* Optional values and object property reads *)

Undefined == <<>>
Def(x) == <<x>>
Val(o) == o[1]

\* obj.key : undefined when the object does not own the key.
Get(obj, key) == IF key \in DOMAIN obj THEN obj[key] ELSE Undefined

\* {...obj, key: value}
Spread(obj, key, value) ==
  [k \in (DOMAIN obj) \cup {key} |-> IF k = key THEN value ELSE obj[k]]

----------------------------------------------------------------------------
(* Inputs *)

Directions == {"previous", "next"}

\* Cursor tokens "value:offset:isPrev" the data source hands out.
Tokens == {<<0, o, 0>> : o \in 0..MaxOffset}
\* A cursor parameter that is not a cursor token.
BadCursor == <<7>>

\* One link of the pagination header:
\*   <uri>; rel="previous|next"; results="true|false"; cursor="..."
\* An entry whose results attribute is not a boolean literal is malformed.
WellFormedEntries ==
  [rel : Directions, results : {"true", "false"},
   cursor : {Undefined} \cup {Def(tk) : tk \in Tokens}]
MalformedEntries ==
  [rel : Directions, results : {"bogus"}, cursor : {Undefined}]
Entries == WellFormedEntries \cup MalformedEntries

\* The raw headers: at most one link per relation, previous first.
Headers ==
  {<<>>} \cup {<<e>> : e \in Entries}
    \cup {<<p, n>> : p \in {e \in Entries : e.rel = "previous"},
                     n \in {e \in Entries : e.rel = "next"}}

\* The arguments of one call of renderTableHeader.
PageCountEvents ==
  [pageLinks : {Undefined} \cup {Def(h) : h \in Headers},
   pageEventsCount : 0..MaxCount,
   totalEventsCount : {0, MaxCount},
   isPending : BOOLEAN]

EventsPath == "/issues/1/events/"
baseUrl == "/issues/1/"

\* Query bags the router produces: every key it holds has a value. The
\* event list is opened with a statsPeriod and with or without a cursor.
RouterQueries ==
  {[statsPeriod |-> Def(<<14>>)]}
    \cup {[statsPeriod |-> Def(<<14>>), cursor |-> Def(c)] :
            c \in Tokens \cup {BadCursor}}

Locations == [pathname : {EventsPath}, query : RouterQueries]

----------------------------------------------------------------------------
(* Collaborators *)

\* The last link of the header for a relation, if any.
RECURSIVE LastEntry(_, _)
LastEntry(header, rel) ==
  IF header = <<>> THEN Undefined
  ELSE IF header[Len(header)].rel = rel THEN Def(header[Len(header)])
  ELSE LastEntry(SubSeq(header, 1, Len(header) - 1), rel)

NoLink == [cursor |-> Undefined, results |-> FALSE]

\* parse(header) -> {previous: LinkDescriptor, next: LinkDescriptor}
parseLinkHeader(pageLinks) ==
  [d \in Directions |->
     IF pageLinks = Undefined THEN NoLink
     ELSE LET e == LastEntry(Val(pageLinks), d) IN
          IF e = Undefined THEN NoLink
          ELSE IF Val(e).results \notin {"true", "false"} THEN NoLink
          ELSE [cursor |-> Val(e).cursor, results |-> (Val(e).results = "true")]]

\* Decodes "value:offset:isPrev"; undefined for anything else.
parseCursor(cursor) ==
  IF cursor = Undefined THEN Undefined
  ELSE IF Len(Val(cursor)) # 3 THEN Undefined
  ELSE Def([value |-> Val(cursor)[1], offset |-> Val(cursor)[2],
            isPrev |-> (Val(cursor)[3] = 1)])

\* The router applies a target: keys whose value is undefined are not
\* serialised into the query string.
applyLocation(to) ==
  [pathname |-> to.pathname,
   query |-> [k \in {j \in DOMAIN to.query : to.query[j] # Undefined}
                |-> to.query[k]]]

\* EventsTable while the page of a new location is in flight: the previous
\* page's data with isPending set.
startFetch(ev) == [ev EXCEPT !.isPending = TRUE]

----------------------------------------------------------------------------
(* renderTableHeader *)

\* Mutant: the comparison is inverted (results === true).
directionDisabledInverted(links, dir) ==
  LET link == Get(links, dir) IN
  IF link = Undefined THEN FALSE ELSE link.results = TRUE

\* Mutant: a direction is disabled when its link has no cursor token,
\* whatever its results flag.
directionDisabledByCursor(links, dir) ==
  LET link == Get(links, dir) IN
  IF link = Undefined THEN FALSE ELSE link.cursor = Undefined

\* links.previous?.results === false  /  links.next?.results === false
directionDisabled(links, dir) ==
  LET link == Get(links, dir) IN
  IF link = Undefined THEN FALSE ELSE link.results = FALSE

\* Mutant: the flag is compared with the string 'false', which never matches.
nextDisabledNever(links) == FALSE

previousDisabled(links) == directionDisabled(links, "previous")
nextDisabled(links) == directionDisabled(links, "next")

currentCursor(location) == parseCursor(Get(location.query, "cursor"))

\* currentCursor?.offset ?? 0
start(location) ==
  IF currentCursor(location) = Undefined THEN 0
  ELSE Val(currentCursor(location)).offset

\* Mutant: the range is rendered while pending too.
rangeTextAlways(ev, location) ==
  Def([start |-> start(location),
       end |-> start(location) + ev.pageEventsCount,
       count |-> ev.totalEventsCount])

\* Mutant: the end of the range is the page count, not start + page count.
rangeTextEndIsCount(ev, location) ==
  IF ev.isPending THEN Undefined
  ELSE Def([start |-> start(location),
            end |-> ev.pageEventsCount,
            count |-> ev.totalEventsCount])

\* isPending ? null : tct('Showing [start]-[end] of [count]', ...)
rangeText(ev, location) ==
  IF ev.isPending THEN Undefined
  ELSE Def([start |-> start(location),
            end |-> start(location) + ev.pageEventsCount,
            count |-> ev.totalEventsCount])

\* links[dir]?.cursor
linkCursor(links, dir) ==
  LET link == Get(links, dir) IN
  IF link = Undefined THEN Undefined ELSE link.cursor

\* Mutant: the query is replaced, not merged.
pageToCursorOnly(links, dir, location) ==
  [pathname |-> location.pathname,
   query |-> [k \in {"cursor"} |-> linkCursor(links, dir)]]

\* Mutant: without a cursor token the location's cursor is kept
\* (links[dir]?.cursor ?? location.query.cursor).
pageToKeepCursor(links, dir, location) ==
  [pathname |-> location.pathname,
   query |-> IF linkCursor(links, dir) = Undefined THEN location.query
             ELSE Spread(location.query, "cursor", linkCursor(links, dir))]

\* Mutant: the two buttons carry each other's cursor.
pageToSwapped(links, dir, location) ==
  [pathname |-> location.pathname,
   query |-> Spread(location.query, "cursor",
                    linkCursor(links, IF dir = "next" THEN "previous" ELSE "next"))]

\* to={{...location, query: {...location.query, cursor: links[dir]?.cursor}}}
pageTo(links, dir, location) ==
  [pathname |-> location.pathname,
   query |-> Spread(location.query, "cursor", linkCursor(links, dir))]

\* Mutant: Close resets the pagination.
closeToNoCursor(location) ==
  [pathname |-> baseUrl,
   query |-> [k \in (DOMAIN location.query) \ {"cursor"} |-> location.query[k]]]

\* to={{pathname: baseUrl, query: location.query}}
closeTo(location) ==
  [pathname |-> baseUrl, query |-> location.query]

\* Mutant: the buttons are not disabled while pending.
renderTableHeaderNoPending(ev, location) ==
  LET links == parseLinkHeader(ev.pageLinks) IN
  [range |-> rangeText(ev, location),
   previous |-> [to |-> pageTo(links, "previous", location),
                 disabled |-> previousDisabled(links)],
   next |-> [to |-> pageTo(links, "next", location),
             disabled |-> nextDisabled(links)],
   close |-> [to |-> closeTo(location), disabled |-> FALSE]]

renderTableHeader(ev, location) ==
  LET links == parseLinkHeader(ev.pageLinks) IN
  [range |-> rangeText(ev, location),
   previous |-> [to |-> pageTo(links, "previous", location),
                 disabled |-> ev.isPending \/ previousDisabled(links)],
   next |-> [to |-> pageTo(links, "next", location),
             disabled |-> ev.isPending \/ nextDisabled(links)],
   close |-> [to |-> closeTo(location), disabled |-> FALSE]]

----------------------------------------------------------------------------
(* State *)

VARIABLES
  location,     \* useLocation(): the router's current location
  event,        \* the arguments of the latest renderTableHeader call
  view          \* the header rendered last

vars == <<location, event, view>>

Init ==
  /\ location \in Locations
  /\ event \in PageCountEvents
  /\ view = renderTableHeader(event, location)

\* EventsTable delivers a page-count event: the header is rendered anew.
PageCountEvent(ev) ==
  /\ event' = ev
  /\ view' = renderTableHeader(ev, location)
  /\ UNCHANGED location

\* The user follows an enabled Previous Page / Next Page link and the router
\* applies the target. The render that sees the new location is the one in
\* which EventsTable starts fetching its page: the header renders as pending
\* until the next page-count event. A target equal to the current location
\* fetches nothing.
Navigate(dir) ==
  /\ ~view[dir].disabled
  /\ location' = applyLocation(view[dir].to)
  /\ event' = IF location' = location THEN event ELSE startFetch(event)
  /\ view' = renderTableHeader(event', location')

Next ==
  \/ \E ev \in PageCountEvents : PageCountEvent(ev)
  \/ \E dir \in Directions : Navigate(dir)

Spec == Init /\ [][Next]_vars

----------------------------------------------------------------------------
(* A data source whose result set does not change: the cursor tokens of a  *)
(* page point backwards (previous) or forwards (next) from the offset the  *)
(* page was requested at.                                                  *)

tokenOffset(cursor) == Val(parseCursor(cursor)).offset

StableHeader(header, offset) ==
  \A i \in 1..Len(header) :
    header[i].cursor # Undefined =>
      /\ header[i].rel = "previous" => tokenOffset(header[i].cursor) <= offset
      /\ header[i].rel = "next" => tokenOffset(header[i].cursor) >= offset

StableEvents(loc) ==
  {ev \in PageCountEvents :
     ev.pageLinks # Undefined => StableHeader(Val(ev.pageLinks), start(loc))}

InitStable ==
  /\ location \in Locations
  /\ event \in StableEvents(location)
  /\ view = renderTableHeader(event, location)

NextStable ==
  \/ \E ev \in StableEvents(location) : PageCountEvent(ev)
  \/ \E dir \in Directions : Navigate(dir)

SpecStable == InitStable /\ [][NextStable]_vars

----------------------------------------------------------------------------
(* Properties *)

\* The links the latest event's header parses to.
latestLinks == parseLinkHeader(event.pageLinks)

\* The header of the latest event holds a link for the relation.
HasEntry(rel) ==
  /\ event.pageLinks # Undefined
  /\ \E i \in 1..Len(Val(event.pageLinks)) : Val(event.pageLinks)[i].rel = rel

\* The link of the latest event's header for the relation (when it has one).
EntryOf(rel) ==
  LET h == Val(event.pageLinks) IN
  h[CHOOSE i \in 1..Len(h) : h[i].rel = rel]

\* The offset the location's cursor parameter decodes to, 0 without one.
locationOffset(loc) ==
  IF "cursor" \in DOMAIN loc.query /\ Len(Val(loc.query["cursor"])) = 3
  THEN Val(loc.query["cursor"])[2]
  ELSE 0

\* C1: while the latest page-count event is loading (isPending), whatever
\* its header, its counts and the location's cursor, no range is rendered
\* and both Previous Page and Next Page are disabled.
C1_LoadingSuppresses ==
  event.isPending =>
    /\ view.range = Undefined
    /\ view.previous.disabled
    /\ view.next.disabled

\* C1 witness: a loading event whose header offers results both ways, at a
\* location that holds a cursor.
C1_Witness ==
  /\ event.isPending
  /\ HasEntry("previous") /\ EntryOf("previous").results = "true"
  /\ HasEntry("next") /\ EntryOf("next").results = "true"
  /\ "cursor" \in DOMAIN location.query
  /\ view.range = Undefined

\* C2: a direction the header has no link for (an absent header included)
\* is disabled, whether the event is loading or not.
C2_MissingEntryDisabled ==
  \A dir \in Directions : ~HasEntry(dir) => view[dir].disabled

\* C2 witness: an idle event whose header has a link for next only; Previous
\* Page is disabled, Next Page is not.
C2_Witness ==
  /\ ~event.isPending
  /\ ~HasEntry("previous") /\ HasEntry("next")
  /\ view.previous.disabled /\ ~view.next.disabled

\* C3: the target of Previous Page and of Next Page has the path of the
\* current location and, for every query key other than cursor, the same
\* value: no other key is added, dropped or changed.
C3_TargetKeepsOtherKeys ==
  \A dir \in Directions :
    LET to == view[dir].to IN
    /\ to.pathname = location.pathname
    /\ (DOMAIN to.query) \ {"cursor"} = (DOMAIN location.query) \ {"cursor"}
    /\ \A k \in (DOMAIN location.query) \ {"cursor"} :
         to.query[k] = location.query[k]

\* C3 witness: the location holds a cursor and another key, and the Next Page
\* target carries a different cursor.
C3_Witness ==
  /\ "cursor" \in DOMAIN location.query
  /\ "statsPeriod" \in DOMAIN location.query
  /\ latestLinks["next"].cursor # Undefined
  /\ view.next.to.query["cursor"] # location.query["cursor"]

C5_Range ==
  ~event.isPending =>
    /\ view.range # Undefined
    /\ Val(view.range).start = locationOffset(location)
    /\ Val(view.range).end - Val(view.range).start = event.pageEventsCount
    /\ Val(view.range).count = event.totalEventsCount

\* C5 witness: an idle event with a non-empty page at a non-zero offset.
C5_Witness ==
  /\ ~event.isPending
  /\ event.pageEventsCount > 0
  /\ locationOffset(location) > 0
  /\ Val(view.range).end > Val(view.range).start

\* C6: when the latest event is not loading, a direction whose link is in
\* the header is enabled exactly when the link's results flag is not
\* "false", with or without a cursor token.
C6_EnabledIffResults ==
  ~event.isPending =>
    \A dir \in Directions :
      (HasEntry(dir) /\ EntryOf(dir).results \in {"true", "false"}) =>
        (view[dir].disabled <=> EntryOf(dir).results = "false")

\* C6 witness: previous has results="false" and a cursor token and is
\* disabled; next has results="true" and no cursor token and is enabled.
C6_Witness ==
  /\ ~event.isPending
  /\ HasEntry("previous") /\ EntryOf("previous").results = "false"
  /\ EntryOf("previous").cursor # Undefined
  /\ view.previous.disabled
  /\ HasEntry("next") /\ EntryOf("next").results = "true"
  /\ EntryOf("next").cursor = Undefined
  /\ ~view.next.disabled

\* The header of the latest event is malformed: it has links, and none of
\* them is well formed.
MalformedHeader ==
  /\ event.pageLinks # Undefined
  /\ Val(event.pageLinks) # <<>>
  /\ \A i \in 1..Len(Val(event.pageLinks)) :
       Val(event.pageLinks)[i].results \notin {"true", "false"}

C8_OffsetMonotone ==
  [][/\ Navigate("next") => locationOffset(location') >= locationOffset(location)
     /\ Navigate("previous") => locationOffset(location') <= locationOffset(location)]_vars

\* C8 amended: with a stable data source, the offset never increases on a
\* Previous Page navigation, and never decreases on a Next Page navigation
\* whose link carries a cursor token.
C8_OffsetMonotoneWithToken ==
  [][/\ (Navigate("next") /\ latestLinks["next"].cursor # Undefined)
          => locationOffset(location') >= locationOffset(location)
     /\ Navigate("previous") => locationOffset(location') <= locationOffset(location)]_vars

\* C8 witness: Next Page is enabled with a cursor token that leads to a
\* greater offset, and Previous Page is enabled with a cursor token.
C8_Witness ==
  /\ ~view.next.disabled /\ ~view.previous.disabled
  /\ latestLinks["next"].cursor # Undefined
  /\ latestLinks["previous"].cursor # Undefined
  /\ locationOffset(applyLocation(view.next.to)) > locationOffset(location)

\* C9: the rendered range and the enabled state of both directions are those
\* of the latest event and the current location alone: a loading event
\* shows no range and disables both, an idle one shows the range of its
\* counts and enables the directions its own links allow.
C9_LatestEventDecides ==
  /\ view.range =
       IF event.isPending THEN Undefined
       ELSE Def([start |-> locationOffset(location),
                 end |-> locationOffset(location) + event.pageEventsCount,
                 count |-> event.totalEventsCount])
  /\ \A dir \in Directions :
       view[dir].disabled <=> (event.isPending \/ ~latestLinks[dir].results)

\* C9 witness: an idle event whose links allow next only, at a location
\* with a cursor; Next Page alone is enabled.
C9_Witness ==
  /\ ~event.isPending
  /\ latestLinks["next"].results /\ ~latestLinks["previous"].results
  /\ ~view.next.disabled /\ view.previous.disabled
  /\ "cursor" \in DOMAIN location.query
  /\ event.pageEventsCount > 0

\* C10: the Close link is never disabled, loading or not, and its target is
\* the group details base path with the location's query unchanged, the
\* cursor included.
C10_CloseTarget ==
  /\ ~view.close.disabled
  /\ view.close.to.pathname = baseUrl
  /\ view.close.to.query = location.query

\* C10 witness: a loading event at a location that holds a cursor and
\* another key.
C10_Witness ==
  /\ event.isPending
  /\ "cursor" \in DOMAIN location.query
  /\ "statsPeriod" \in DOMAIN view.close.to.query
  /\ view.close.to.pathname # location.pathname

====
